---- MODULE Spec2Model ----
(***************************************************************************)
(* ShotGrid status webhooks (functions/main.py).                           *)
(*                                                                         *)
(* One HTTP request is dispatched to one of three handlers, which read     *)
(* and update a Version, its linked Task and the Task's linked Shot in     *)
(* the remote service.  Every remote call is one step of the model, so     *)
(* that the order of the calls and the values a handler read earlier are   *)
(* part of the state.  An invocation is a frame of the handler's local     *)
(* variables.  Spec handles one event; SpecRedelivery also delivers the    *)
(* same event a second time once the first handling has answered.          *)
(***************************************************************************)
EXTENDS Naturals, Sequences, FiniteSets

VARIABLES
    rVersion,   \* the Version in the remote service
    rTask,      \* the Task in the remote service
    rShot,      \* the Shot in the remote service
    _V2T,       \* version_to_task of status_mapping.yaml, the entries read so far
    _T2S,       \* task_to_shot of status_mapping.yaml, the entries read so far
    event,      \* event[i]: the request invocation i is given
    frame,      \* frame[i]: the local variables of invocation i
    first       \* "none" in the first handling of the event; in the second,
                \* whether every remote call of the first succeeded

vars == <<rVersion, rTask, rShot, _V2T, _T2S, event, frame, first>>

(***************************** values **************************************)

\* Python's None, and a dict field that is absent.
NULL == "null"

\* The status codes: 'cnv' and 'na' are the two the code names; 'apr' stands
\* for any other status of the remote service.
Status == {"na", "cnv", "apr"}

\* Step names: the ones the code tests for, and one it does not.
StepNames == {"Composite", "Secondary Composite", "Prep", "Computer Graphics", "Animation"}

\* The longest candidate list of the mapping file.
MaxCand == 2

\* The candidate lists a mapping entry can hold: lists of statuses without
\* repetition, the empty list included (a key the file does not have reads
\* as the empty list, _V2T.get(v, [])).
RECURSIVE ListsOf(_)
ListsOf(n) ==
    IF n = 0 THEN {<<>>}
    ELSE LET shorter == ListsOf(n - 1)
         IN  shorter \cup
             {Append(l, s) : <<l, s>> \in
                 {p \in shorter \X Status :
                     /\ Len(p[1]) = n - 1
                     /\ \A k \in 1..Len(p[1]) : p[1][k] # p[2]}}

CandLists == ListsOf(MaxCand)

\* An entry of the mapping file that no handler has read yet: it can be any
\* candidate list.  The file is loaded once and never changes, so an entry
\* keeps the list it showed at its first read.
Unread == <<"unread">>

HTTP_OK           == 200
HTTP_UNAUTHORIZED == 401
HTTP_BAD_JSON     == 400
HTTP_NOT_FOUND    == 404

Elems(s) == {s[k] : k \in 1..Len(s)}

(************************* the remote service ******************************)

\* A Version that is absent (find_one gives None).
NoVersion == [exists |-> FALSE, sg_status_list |-> NULL, sg_task |-> FALSE]
\* A Task that is absent.
NoTask    == [exists |-> FALSE, sg_status_list |-> NULL, step |-> NULL, entity |-> NULL]
\* A Shot that is absent.
NoShot    == [exists |-> FALSE, sg_status_list |-> NULL]

\* sg_task: whether the Version links to the Task (which may itself be gone).
Versions == {NoVersion} \cup
    [exists : {TRUE}, sg_status_list : Status, sg_task : BOOLEAN]

\* What task["entity"] can be: the key absent, None (the Task links to
\* nothing), a dict without an id, or the link to the Shot.
EntityShapes == {"nokey", "none", "noid", "Shot"}

Tasks == {NoTask} \cup
    [exists : {TRUE}, sg_status_list : Status,
     step : StepNames \cup {NULL}, entity : EntityShapes]

Shots == {NoShot} \cup [exists : {TRUE}, sg_status_list : Status]

\* The statuses of the three entities, to compare two moments.
Remote == <<rVersion, rTask, rShot>>

(***************************** requests ************************************)

Routes == {"task", "version", "status", "version_created", "version-created", "unknown"}
Sigs   == {"absent", "wrong", "valid"}
Bodies == {"malformed", "not_object", "object"}
Attrs  == {"sg_status_list", "description", NULL}

\* A request: the route key, the X-SG-Signature header, the body, and of a
\* JSON object body the fields the handlers read: meta.attribute_name,
\* whether an entity id is given, meta.new_value.  The fields of a body
\* that is no JSON object, and meta of a version-created event (which that
\* handler never reads), are fixed.
Requests ==
    { r \in [route : Routes, sig : Sigs, body : Bodies, attribute_name : Attrs,
             entity_id : BOOLEAN, new_value : Status] :
        /\ r.body # "object" =>
              r.attribute_name = NULL /\ ~r.entity_id /\ r.new_value = "na"
        /\ r.route \in {"version_created", "version-created", "unknown"} =>
              r.attribute_name = NULL /\ r.new_value = "na"
        /\ r.route = "unknown" => ~r.entity_id
        /\ r.attribute_name # "sg_status_list" => r.new_value = "na" }

NoResponse == [status |-> 0, kind |-> "none", status_before |-> NULL,
               status_after |-> NULL, shot_before |-> NULL, shot_after |-> NULL,
               pipeline_step |-> NULL, task_id |-> FALSE]

\* The local variables of an invocation that has not started.
Idle == [pc |-> "idle", handler |-> "none",
         version |-> NoVersion, task |-> NoTask,
         task_statuses |-> <<>>, shot_statuses |-> <<>>,
         shot_before |-> NoShot, shot_update |-> NULL,
         status_before |-> NULL, status_after |-> NULL, step_name |-> NULL,
         calls |-> <<>>, resp |-> NoResponse,
         start |-> <<NoVersion, NoTask, NoShot>>]

Invocations == {1}

(************************** pure functions *********************************)

\* map_version_to_task = lambda v: _V2T.get(v, [])
map_version_to_task(tbl, v) == tbl[v]

\* map_task_to_shot = lambda t: _T2S.get(t, [])
map_task_to_shot(tbl, t) == tbl[t]

\* The mapping file shows list c under key k: the entry is c, or was not
\* read before.
Shows(tbl, k, c) == tbl[k] \in {Unread, c}

\* The table once key k has been read as c.
Read(tbl, k, c) == [tbl EXCEPT ![k] = c]

\* _verify_sig: no header is refused; otherwise the header (less its sha1=
\* prefix) is compared with the HMAC of the body.  The HMAC itself is not
\* modelled: "valid" is a header that matches this body.
_verify_sig(body, sig) ==
    IF sig = "absent" THEN FALSE ELSE sig = "valid"

\* The handler _dispatch calls for a route key.
HandlerOf(key) ==
    IF key = "task" THEN "task"
    ELSE IF key \in {"version", "status"} THEN "version"
    ELSE IF key \in {"version_created", "version-created"} THEN "version_created"
    ELSE "none"

\* GateStatus with the route looked at before the signature and the body.
GateRouteFirst(r) ==
    IF HandlerOf(r.route) = "none" THEN HTTP_NOT_FOUND
    ELSE IF ~_verify_sig(r.body, r.sig) THEN HTTP_UNAUTHORIZED
    ELSE IF r.body # "object" THEN HTTP_BAD_JSON
    ELSE HTTP_OK

\* The status _dispatch answers with before any handler runs: the checks in
\* the order of the code, HTTP_OK when the request passes them all.
GateStatus(r) ==
    IF ~_verify_sig(r.body, r.sig) THEN HTTP_UNAUTHORIZED
    ELSE IF r.body # "object" THEN HTTP_BAD_JSON
    ELSE IF HandlerOf(r.route) = "none" THEN HTTP_NOT_FOUND
    ELSE HTTP_OK

\* _entity_id: the id of the payload, or None.
_entity_id(data) == IF data.entity_id THEN "id" ELSE NULL

\* IsStatusChange letting every attribute through.
IsAnyChange(attribute_name) == TRUE

\* The test both status handlers start with.
IsStatusChange(attribute_name) == attribute_name = "sg_status_list"

\* _is_composite_step: a Task without a step has step name None.
_is_composite_step(task) == task.step \in {"Composite", "Secondary Composite"}

\* eligible_steps taken to be the steps of _is_composite_step.
composite_steps == {"Composite", "Secondary Composite"}

\* eligible_steps of _handle_version_created.
eligible_steps == {"Prep", "Composite", "Computer Graphics"}

\* The guard of the Task update in both version handlers:
\* task and task_statuses and task["sg_status_list"] not in task_statuses.
TaskNeedsUpdate(task, task_statuses) ==
    /\ task.exists
    /\ task_statuses # <<>>
    /\ task.sg_status_list \notin Elems(task_statuses)

\* target_task_status taking the last candidate.
last_task_status(task_statuses) == task_statuses[Len(task_statuses)]

\* target_task_status = task_statuses[0]
target_task_status(task_statuses) == task_statuses[1]

\* ShotKey taking the Version's status in _handle_version_created.
ShotKeyOfVersion(L) ==
    IF L.handler = "version_created" THEN L.status_after
    ELSE L.task_statuses[1]

\* The key the version handlers look the Shot candidates up under:
\* shot_statuses = map_task_to_shot(target_task_status).
ShotKey(L) == target_task_status(L.task_statuses)

\* _update_linked_shot_if_needed before its first remote call: "skip" when
\* it returns (None, None) at once, "crash" when task["entity"] is None
\* (None has no .get: AttributeError), "find" when it goes on to find_shot.
ShotEntry(task, candidate) ==
    IF candidate = <<>> THEN "skip"
    ELSE IF task.entity = "nokey" THEN "skip"
    ELSE IF task.entity = "none" THEN "crash"
    ELSE IF task.entity = "noid" THEN "skip"
    ELSE "find"

\* current_status in candidate
ShotIsCurrent(shot, candidate) == shot.sg_status_list \in Elems(candidate)

(***************************** responses ***********************************)

Call(op, val, ok) == [op |-> op, val |-> val, ok |-> ok]

Logged(L, op, val, ok) == Append(L.calls, Call(op, val, ok))

Answer(L, r) == [L EXCEPT !.pc = "done", !.resp = r]

Rejected(status) == [NoResponse EXCEPT !.status = status, !.kind = "rejected"]
ErrorResult      == [NoResponse EXCEPT !.status = HTTP_OK, !.kind = "error"]
IgnoredResult    == [NoResponse EXCEPT !.status = HTTP_OK, !.kind = "ignored"]
\* An exception no handler catches: the platform answers 500 for the
\* function.
Crashed          == [NoResponse EXCEPT !.status = 500, !.kind = "crash"]

\* The dict each handler returns at its end, jsonify'd with status 200.
ResultOf(L) ==
    IF L.handler = "version" THEN
        [NoResponse EXCEPT !.status = HTTP_OK, !.kind = "result",
                           !.task_id = L.version.sg_task]
    ELSE IF L.handler = "task" THEN
        [NoResponse EXCEPT !.status = HTTP_OK, !.kind = "result", !.task_id = TRUE,
            !.shot_before = IF L.shot_before.exists
                            THEN L.shot_before.sg_status_list ELSE NULL,
            !.shot_after = L.shot_update]
    ELSE
        [NoResponse EXCEPT !.status = HTTP_OK, !.kind = "result",
            !.status_before = L.status_before, !.status_after = L.status_after,
            !.pipeline_step = L.step_name, !.task_id = L.version.sg_task]

Return(L) == Answer(L, ResultOf(L))

Put(i, L) == frame' = [frame EXCEPT ![i] = L]

\* What a find_* call can give: the entity, or None when it is absent or
\* when the call raised (ok = FALSE).
Finds(entity, none) ==
    IF entity.exists THEN {<<entity, TRUE>>, <<none, FALSE>>}
    ELSE {<<none, TRUE>>}

(************************* receiving a request *****************************)

\* _handle_task_status and _handle_version_status up to their first remote
\* call.
StatusHandlerEntry(L, r, find) ==
    IF ~IsStatusChange(r.attribute_name) THEN Answer(L, IgnoredResult)
    ELSE IF _entity_id(r) = NULL THEN Answer(L, ErrorResult)
    ELSE [L EXCEPT !.pc = find]

\* _handle_version_created up to its first remote call.
CreatedHandlerEntry(L, r) ==
    IF _entity_id(r) = NULL THEN Answer(L, ErrorResult)
    ELSE [L EXCEPT !.pc = "vc_find_version"]

\* _dispatch: the checks, then the handler for the route.
_dispatch(L, r) ==
    IF GateStatus(r) # HTTP_OK THEN Answer(L, Rejected(GateStatus(r)))
    ELSE LET H == [L EXCEPT !.handler = HandlerOf(r.route)]
         IN  IF H.handler = "task" THEN StatusHandlerEntry(H, r, "ts_find_task")
             ELSE IF H.handler = "version" THEN StatusHandlerEntry(H, r, "vs_find_version")
             ELSE CreatedHandlerEntry(H, r)

\* Invocation i receives its request.
Receive(i) ==
    /\ frame[i].pc = "idle"
    /\ Put(i, _dispatch([Idle EXCEPT !.start = Remote], event[i]))
    /\ UNCHANGED <<rVersion, rTask, rShot, _V2T, _T2S, event, first>>

(******************* _update_linked_shot_if_needed *************************)

\* The call of _update_linked_shot_if_needed(sg, task, candidate) up to its
\* first remote call; L.shot_statuses is the candidate list.
EnterShot(L) ==
    LET e == ShotEntry(L.task, L.shot_statuses)
    IN  IF e = "find" THEN [L EXCEPT !.pc = "find_shot"]
        ELSE IF e = "crash" THEN Answer(L, Crashed)
        ELSE Return(L)

\* shot = sg.find_shot(shot_id), and the two returns without an update.
find_shot(i) ==
    LET L == frame[i] IN
    /\ L.pc = "find_shot"
    /\ \E f \in Finds(rShot, NoShot) :
         LET L1 == [L EXCEPT !.calls = Logged(L, "find_shot", NULL, f[2])]
         IN  IF ~f[1].exists THEN Put(i, Return(L1))
             ELSE LET L2 == [L1 EXCEPT !.shot_before = f[1]]
                  IN  IF ShotIsCurrent(f[1], L.shot_statuses) THEN Put(i, Return(L2))
                      ELSE Put(i, [L2 EXCEPT !.pc = "set_shot"])
    /\ UNCHANGED <<rVersion, rTask, rShot, _V2T, _T2S, event, first>>

\* set_shot calling again when the call raised.
set_shot_retrying(i) ==
    LET L == frame[i]
        to == L.shot_statuses[1]
    IN
    /\ L.pc = "set_shot"
    /\ \E ok \in BOOLEAN :
         /\ rShot' = IF ok THEN [rShot EXCEPT !.sg_status_list = to] ELSE rShot
         /\ LET L1 == [L EXCEPT !.calls = Logged(L, "set_shot_status", to, ok),
                                !.shot_update = IF ok THEN to ELSE NULL]
            IN  Put(i, IF ok THEN Return(L1) ELSE L1)
    /\ UNCHANGED <<rVersion, rTask, _V2T, _T2S, event, first>>

\* result = sg.set_shot_status(shot_id, candidate[0]): the updated Shot, or
\* None when the call raised.
set_shot(i) ==
    LET L == frame[i]
        to == L.shot_statuses[1]
    IN
    /\ L.pc = "set_shot"
    /\ \E ok \in BOOLEAN :
         /\ rShot' = IF ok THEN [rShot EXCEPT !.sg_status_list = to] ELSE rShot
         /\ Put(i, Return([L EXCEPT
                !.calls = Logged(L, "set_shot_status", to, ok),
                !.shot_update = IF ok THEN to ELSE NULL]))
    /\ UNCHANGED <<rVersion, rTask, _V2T, _T2S, event, first>>

(********************** Task update, then the Shot *************************)

\* Lines 274-298 and 398-422: the Task candidates are looked up under the
\* Version status `key`; the Task update follows when its guard holds,
\* otherwise the handler returns.
MapToTask(i, L, key, set_task) ==
    /\ \E c \in CandLists :
         /\ Shows(_V2T, key, c)
         /\ _V2T' = Read(_V2T, key, c)
         /\ LET L1 == [L EXCEPT !.task_statuses = map_version_to_task(Read(_V2T, key, c), key)]
            IN  IF TaskNeedsUpdate(L1.task, L1.task_statuses)
                THEN Put(i, [L1 EXCEPT !.pc = set_task])
                ELSE Put(i, Return(L1))
    /\ UNCHANGED <<rVersion, rTask, rShot, _T2S, event, first>>

\* sg.set_task_status([task_id], target_task_status), then the Shot
\* candidates for the status the Task was set to, then the call of
\* _update_linked_shot_if_needed.
SetTaskThenShot(i, L) ==
    LET to == target_task_status(L.task_statuses) IN
    /\ \E ok \in BOOLEAN :
         /\ rTask' = IF ok THEN [rTask EXCEPT !.sg_status_list = to] ELSE rTask
         /\ \E c \in CandLists :
              /\ Shows(_T2S, ShotKey(L), c)
              /\ _T2S' = Read(_T2S, ShotKey(L), c)
              /\ Put(i, EnterShot([L EXCEPT
                    !.calls = Logged(L, "set_task_status", to, ok),
                    !.shot_statuses = map_task_to_shot(Read(_T2S, ShotKey(L), c), ShotKey(L))]))
    /\ UNCHANGED <<rVersion, rShot, _V2T, event, first>>

(************************ _handle_version_status ***************************)

\* version = sg.find_version(vid) or {}; without a linked Task the handler
\* goes on with task = None.
vs_find_version(i) ==
    LET L == frame[i] IN
    /\ L.pc = "vs_find_version"
    /\ \E f \in Finds(rVersion, NoVersion) :
         LET L1 == [L EXCEPT !.version = f[1],
                             !.calls = Logged(L, "find_version", NULL, f[2])]
         IN  IF f[1].sg_task
             THEN /\ Put(i, [L1 EXCEPT !.pc = "vs_find_task"])
                  /\ UNCHANGED <<rVersion, rTask, rShot, _V2T, _T2S, event, first>>
             ELSE MapToTask(i, L1, event[i].new_value, "vs_set_task")

\* task = sg.find_task(task_id), then the mapping and the guard.
vs_find_task(i) ==
    LET L == frame[i] IN
    /\ L.pc = "vs_find_task"
    /\ \E f \in Finds(rTask, NoTask) :
         MapToTask(i, [L EXCEPT !.task = f[1],
                                !.calls = Logged(L, "find_task", NULL, f[2])],
                   event[i].new_value, "vs_set_task")

vs_set_task(i) ==
    /\ frame[i].pc = "vs_set_task"
    /\ SetTaskThenShot(i, frame[i])

(************************** _handle_task_status ****************************)

\* task = sg.find_task(tid), the two early returns, the Shot candidates for
\* the Task's new status and the call of _update_linked_shot_if_needed.
ts_find_task(i) ==
    LET L == frame[i] IN
    /\ L.pc = "ts_find_task"
    /\ \E f \in Finds(rTask, NoTask) :
         LET L1 == [L EXCEPT !.task = f[1],
                             !.calls = Logged(L, "find_task", NULL, f[2])]
         IN  IF ~f[1].exists
             THEN Put(i, Answer(L1, ErrorResult)) /\ UNCHANGED _T2S
             ELSE IF ~_is_composite_step(f[1])
             THEN Put(i, Answer(L1, IgnoredResult)) /\ UNCHANGED _T2S
             ELSE \E c \in CandLists :
                    /\ Shows(_T2S, event[i].new_value, c)
                    /\ _T2S' = Read(_T2S, event[i].new_value, c)
                    /\ Put(i, EnterShot([L1 EXCEPT !.shot_statuses =
                          map_task_to_shot(Read(_T2S, event[i].new_value, c), event[i].new_value)]))
    /\ UNCHANGED <<rVersion, rTask, rShot, _V2T, event, first>>

(************************ _handle_version_created **************************)

\* Lines 392 and 423-434: which Version update follows, if any.
CreatedBranch(L) ==
    IF L.step_name \in eligible_steps THEN [L EXCEPT !.pc = "vc_set_version_cnv"]
    ELSE IF L.step_name \notin eligible_steps /\ L.status_before # "na"
         THEN [L EXCEPT !.pc = "vc_set_version_na"]
         ELSE Return([L EXCEPT !.status_after = L.status_before])

\* version = sg.find_version(vid); a Version without sg_task has no step.
vc_find_version(i) ==
    LET L == frame[i] IN
    /\ L.pc = "vc_find_version"
    /\ \E f \in Finds(rVersion, NoVersion) :
         LET L1 == [L EXCEPT !.version = f[1],
                             !.status_before = f[1].sg_status_list,
                             !.calls = Logged(L, "find_version", NULL, f[2])]
         IN  IF ~f[1].exists THEN Put(i, Answer(L1, ErrorResult))
             ELSE IF f[1].sg_task THEN Put(i, [L1 EXCEPT !.pc = "vc_find_task"])
             ELSE Put(i, CreatedBranch(L1))
    /\ UNCHANGED <<rVersion, rTask, rShot, _V2T, _T2S, event, first>>

\* task = sg.find_task(task_id); step_name stays None when it is not found.
vc_find_task(i) ==
    LET L == frame[i] IN
    /\ L.pc = "vc_find_task"
    /\ \E f \in Finds(rTask, NoTask) :
         Put(i, CreatedBranch([L EXCEPT !.task = f[1], !.step_name = f[1].step,
                                        !.calls = Logged(L, "find_task", NULL, f[2])]))
    /\ UNCHANGED <<rVersion, rTask, rShot, _V2T, _T2S, event, first>>

\* sg.set_version_status(vid, "cnv"); status_after = "cnv"; then the Task.
vc_set_version_cnv(i) ==
    LET L == frame[i] IN
    /\ L.pc = "vc_set_version_cnv"
    /\ \E ok \in BOOLEAN :
         /\ rVersion' = IF ok THEN [rVersion EXCEPT !.sg_status_list = "cnv"] ELSE rVersion
         /\ \E c \in CandLists :
              /\ Shows(_V2T, "cnv", c)
              /\ _V2T' = Read(_V2T, "cnv", c)
              /\ LET L1 == [L EXCEPT
                        !.calls = Logged(L, "set_version_status", "cnv", ok),
                        !.status_after = "cnv",
                        !.task_statuses = map_version_to_task(Read(_V2T, "cnv", c), "cnv")]
                 IN  IF TaskNeedsUpdate(L1.task, L1.task_statuses)
                     THEN Put(i, [L1 EXCEPT !.pc = "vc_set_task"])
                     ELSE Put(i, Return(L1))
    /\ UNCHANGED <<rTask, rShot, _T2S, event, first>>

\* sg.set_version_status(vid, "na"); status_after = "na".
vc_set_version_na(i) ==
    LET L == frame[i] IN
    /\ L.pc = "vc_set_version_na"
    /\ \E ok \in BOOLEAN :
         /\ rVersion' = IF ok THEN [rVersion EXCEPT !.sg_status_list = "na"] ELSE rVersion
         /\ Put(i, Return([L EXCEPT
                !.calls = Logged(L, "set_version_status", "na", ok),
                !.status_after = "na"]))
    /\ UNCHANGED <<rTask, rShot, _V2T, _T2S, event, first>>

vc_set_task(i) ==
    /\ frame[i].pc = "vc_set_task"
    /\ SetTaskThenShot(i, frame[i])

(**************************** the system ***********************************)

\* Any request, and any Version, Task and Shot that a handler can reach from
\* the entity the request's route is about: the Task for a task event, for
\* any other request the Version, the Task through the Version's link; the
\* Shot through the Task's link.  An event about a status change reports
\* the status its entity has (no handler reads that field of it).  No entry
\* of the mapping file has been read.
Init ==
    /\ event \in [Invocations -> Requests]
    /\ rVersion \in Versions
    /\ rTask \in Tasks
    /\ rShot \in Shots
    /\ LET h == HandlerOf(event[1].route) IN
       /\ rVersion.exists => h # "task"
       /\ rTask.exists => h = "task" \/ rVersion.sg_task
       /\ rShot.exists => rTask.exists /\ rTask.entity = "Shot"
       /\ h = "version" /\ rVersion.exists =>
             rVersion.sg_status_list = event[1].new_value
       /\ h = "task" /\ rTask.exists =>
             rTask.sg_status_list = event[1].new_value
    /\ _V2T = [s \in Status |-> Unread]
    /\ _T2S = [s \in Status |-> Unread]
    /\ frame = [i \in Invocations |-> Idle]
    /\ first = "none"

AllOk(calls) == \A k \in 1..Len(calls) : calls[k].ok

\* The service delivers the event again once it has been answered: a new
\* invocation handles it, and of the first only the outcome is kept.
Redeliver ==
    /\ first = "none"
    /\ frame[1].pc = "done"
    /\ first' = IF AllOk(frame[1].calls) THEN "clean" ELSE "failed"
    /\ Put(1, _dispatch([Idle EXCEPT !.start = Remote], event[1]))
    /\ UNCHANGED <<rVersion, rTask, rShot, _V2T, _T2S, event>>

Step(i) ==
    \/ vs_find_version(i)
    \/ vs_find_task(i)
    \/ vs_set_task(i)
    \/ ts_find_task(i)
    \/ vc_find_version(i)
    \/ vc_find_task(i)
    \/ vc_set_version_cnv(i)
    \/ vc_set_version_na(i)
    \/ vc_set_task(i)
    \/ find_shot(i)
    \/ set_shot(i)

Next ==
    \/ \E i \in Invocations : Receive(i)
    \/ \E i \in Invocations : Step(i)

Spec == Init /\ [][Next]_vars

SpecRedelivery == Init /\ [][Next \/ Redeliver]_vars

(***************************** the claims **********************************)

UpdateOps == {"set_version_status", "set_task_status", "set_shot_status"}

\* The positions of the calls of op in a call log.
CallsOf(calls, op) == {k \in 1..Len(calls) : calls[k].op = op}

Issued(calls, op) == CallsOf(calls, op) # {}

NoUpdate(calls) == \A k \in 1..Len(calls) : calls[k].op \notin UpdateOps

\* Exactly one call of op, and it sets the status `to`.
OneUpdateTo(calls, op, to) ==
    /\ Cardinality(CallsOf(calls, op)) = 1
    /\ \A k \in CallsOf(calls, op) : calls[k].val = to

\* The downstream rule for an entity found with status s and candidates c.
Rule(calls, op, s, c) ==
    IF c # <<>> /\ s \notin Elems(c)
    THEN OneUpdateTo(calls, op, c[1])
    ELSE ~Issued(calls, op)

\* The lists the mapping file can hold under key k, given what was read.
CanHold(tbl, k) == IF tbl[k] = Unread THEN CandLists ELSE {tbl[k]}

\* C1: in the handling of one event no entity gets more than one update
\* call: at most one set_version_status, one set_task_status and one
\* set_shot_status in the call log of an invocation.
C1_AtMostOneUpdatePerEntity ==
    \A i \in Invocations : \A op \in UpdateOps :
        Cardinality(CallsOf(frame[i].calls, op)) <= 1

\* A version-created event that updated the Version, the Task and the Shot.
C1_Witness ==
    \E i \in Invocations :
        /\ frame[i].pc = "done"
        /\ \A op \in UpdateOps : Issued(frame[i].calls, op)

\* C2, as amended: when a handler returns, the rule (an update to the first
\* candidate exactly when the candidates are not empty and the status found
\* is not among them, no update otherwise) holds of the Task found by the
\* version-status handler with the candidates of the event's new status, of
\* the Task found by the version-created handler in an eligible step with
\* the candidates of 'cnv', and of the Shot found with the candidates of
\* the Task status it is looked up under; the version-created handler
\* issues no Task update for a Task in any other step.
C2_DownstreamRule ==
    \A i \in Invocations :
        LET L == frame[i] IN
        L.pc = "done" =>
            /\ L.handler = "version" /\ L.task.exists =>
                  Rule(L.calls, "set_task_status", L.task.sg_status_list,
                       _V2T[event[i].new_value])
            /\ L.handler = "version_created" /\ L.task.exists =>
                  IF L.task.step \in {"Prep", "Composite", "Computer Graphics"}
                  THEN Rule(L.calls, "set_task_status", L.task.sg_status_list,
                            _V2T["cnv"])
                  ELSE ~Issued(L.calls, "set_task_status")
            /\ L.shot_before.exists =>
                  Rule(L.calls, "set_shot_status", L.shot_before.sg_status_list,
                       IF L.handler = "task" THEN _T2S[event[i].new_value]
                       ELSE _T2S[_V2T[IF L.handler = "version"
                                      THEN event[i].new_value ELSE "cnv"][1]])

\* The version-status handler found the Task in a status that is not among
\* two candidates and set it to the first.
C2_Witness ==
    \E i \in Invocations :
        LET L == frame[i] IN
        /\ L.pc = "done"
        /\ L.handler = "version"
        /\ L.task.exists
        /\ Len(_V2T[event[i].new_value]) = 2
        /\ L.task.sg_status_list \notin Elems(_V2T[event[i].new_value])
        /\ OneUpdateTo(L.calls, "set_task_status", _V2T[event[i].new_value][1])

\* C2 as stated: the rule holds of every Task a version handler found, the
\* source status being the event's new status in the version-status handler
\* and the status the version-created handler leaves the Version with,
\* whatever list the mapping file holds under it.
C2_Original ==
    \A i \in Invocations :
        LET L == frame[i] IN
        L.pc = "done" /\ L.resp.kind = "result" =>
            /\ L.handler = "version" /\ L.task.exists =>
                  \A c \in CanHold(_V2T, event[i].new_value) :
                      Rule(L.calls, "set_task_status", L.task.sg_status_list, c)
            /\ L.handler = "version_created" /\ L.task.exists =>
                  \A c \in CanHold(_V2T, L.status_after) :
                      Rule(L.calls, "set_task_status", L.task.sg_status_list, c)

\* C3: a Shot update is issued only for a Task in step Composite or
\* Secondary Composite.
C3_ShotOnlyForCompositeTask ==
    \A i \in Invocations :
        Issued(frame[i].calls, "set_shot_status") =>
            frame[i].task.step \in {"Composite", "Secondary Composite"}

\* C4: when the entity the event names is not in the remote service, the
\* answer is 200 with an error result and no update call is issued.
C4_MissingEntityIsError ==
    \A i \in Invocations :
        LET L == frame[i] IN
        /\ L.pc = "done"
        /\ Len(L.calls) > 0
        /\ \/ L.handler \in {"version", "version_created"} /\ ~rVersion.exists
           \/ L.handler = "task" /\ ~rTask.exists
        => /\ L.resp.status = 200
           /\ L.resp.kind = "error"
           /\ NoUpdate(L.calls)

\* C5: a request that fails a check is answered by the first failing check
\* in the order signature (401), JSON body (400), route (404), at once:
\* without any remote call and with the remote service as it was.
C5_FirstFailingCheck ==
    \A i \in Invocations :
        LET L == frame[i]
            r == event[i]
            status == IF r.sig # "valid" THEN 401
                      ELSE IF r.body # "object" THEN 400
                      ELSE 404
        IN  /\ L.pc # "idle"
            /\ \/ r.sig # "valid"
               \/ r.body # "object"
               \/ r.route \notin {"task", "version", "status",
                                  "version_created", "version-created"}
            => /\ L.pc = "done"
               /\ L.resp.status = status
               /\ L.calls = <<>>
               /\ Remote = L.start

\* A request with a wrong signature, a malformed body and an unknown route
\* was answered 401, with a Version in the remote service.
C5_Witness ==
    \E i \in Invocations :
        /\ frame[i].pc = "done"
        /\ event[i].sig = "wrong"
        /\ event[i].body = "malformed"
        /\ event[i].route = "unknown"
        /\ frame[i].resp.status = 401
        /\ rVersion.exists

\* C6: when the version-created handler returns for a Version it found, it
\* has issued an update to 'cnv' exactly when the Version links to a Task
\* that was found in step Prep, Composite or Computer Graphics; otherwise it
\* has issued an update to 'na' exactly when the status it read was not
\* 'na'; it issues no other Version update.
C6_CreatedVersionStatus ==
    \A i \in Invocations :
        LET L == frame[i]
            eligible == /\ L.version.sg_task
                        /\ L.task.exists
                        /\ L.task.step \in {"Prep", "Composite", "Computer Graphics"}
            set == CallsOf(L.calls, "set_version_status")
        IN  L.pc = "done" /\ L.handler = "version_created" /\ L.version.exists =>
               /\ \A k \in set : L.calls[k].val \in {"cnv", "na"}
               /\ (\E k \in set : L.calls[k].val = "cnv") <=> eligible
               /\ ~eligible =>
                    ((\E k \in set : L.calls[k].val = "na")
                        <=> L.version.sg_status_list # "na")
               /\ eligible => \A k \in set : L.calls[k].val = "cnv"

\* The Version of a Task in step Prep was set to 'cnv'.
C6_Witness ==
    \E i \in Invocations :
        LET L == frame[i] IN
        /\ L.pc = "done"
        /\ L.handler = "version_created"
        /\ L.task.step = "Prep"
        /\ OneUpdateTo(L.calls, "set_version_status", "cnv")

\* C7: the result echoes the outcome.  The version-created result has
\* status_before the Version status at the start and status_after the
\* Version status in the remote service at the return; the task-status
\* result has shot_before the Shot status read (None when no Shot was
\* found) and shot_after set exactly when the Shot update was issued and
\* succeeded, and then equal to the Shot status in the remote service.
C7_ResponseEchoesOutcome ==
    \A i \in Invocations :
        LET L == frame[i] IN
        L.pc = "done" /\ L.resp.kind = "result" =>
            /\ L.handler = "version_created" =>
                  /\ L.resp.status_before = L.start[1].sg_status_list
                  /\ L.resp.status_after = rVersion.sg_status_list
            /\ L.handler = "task" =>
                  /\ L.resp.shot_before =
                        IF L.shot_before.exists THEN L.start[3].sg_status_list ELSE NULL
                  /\ L.resp.shot_after # NULL <=>
                        \E k \in CallsOf(L.calls, "set_shot_status") : L.calls[k].ok
                  /\ L.resp.shot_after # NULL =>
                        L.resp.shot_after = rShot.sg_status_list

\* C8: in the version handlers every Shot call comes after a Task update
\* call of the same event; the Shot candidates are the mapping file's list
\* for the status that Task update set, which is the first Task candidate;
\* and a handler that returns without a Task update (the Task missing,
\* without candidates or already in one of them) has made no Shot call.
C8_ShotAfterTaskUpdate ==
    \A i \in Invocations :
        LET L == frame[i]
            shot == CallsOf(L.calls, "find_shot") \cup CallsOf(L.calls, "set_shot_status")
            task == CallsOf(L.calls, "set_task_status")
        IN  L.handler \in {"version", "version_created"} =>
               /\ \A k \in shot : \E j \in task : j < k
               /\ \A k \in shot : \A j \in task :
                     /\ L.calls[j].val = L.task_statuses[1]
                     /\ L.shot_statuses = _T2S[L.calls[j].val]
               /\ \/ ~L.task.exists
                  \/ L.task_statuses = <<>>
                  \/ L.task.sg_status_list \in Elems(L.task_statuses)
                  => shot = {}

\* The version-status handler set the Task to a status other than the
\* Version's new status, then read and updated the Shot.
C8_Witness ==
    \E i \in Invocations :
        LET L == frame[i] IN
        /\ L.pc = "done"
        /\ L.handler = "version"
        /\ Len(L.calls) = 5
        /\ L.calls[3].op = "set_task_status"
        /\ L.calls[3].val # event[i].new_value
        /\ L.calls[4].op = "find_shot"
        /\ L.calls[5].op = "set_shot_status"

\* C9: a task-status or version-status event about another attribute than
\* sg_status_list (or about none) is answered as ignored at once: without
\* any remote call and with the remote service as it was.
C9_OtherAttributeIgnored ==
    \A i \in Invocations :
        LET L == frame[i]
            r == event[i]
        IN  /\ L.pc # "idle"
            /\ r.sig = "valid"
            /\ r.body = "object"
            /\ r.route \in {"task", "version", "status"}
            /\ r.attribute_name # "sg_status_list"
            => /\ L.pc = "done"
               /\ L.resp.kind = "ignored"
               /\ L.resp.status = 200
               /\ L.calls = <<>>
               /\ Remote = L.start

\* A version-status event without attribute_name was ignored, with a Task
\* and a Shot in the remote service.
C9_Witness ==
    \E i \in Invocations :
        /\ frame[i].pc = "done"
        /\ event[i].route = "version"
        /\ event[i].sig = "valid"
        /\ event[i].body = "object"
        /\ event[i].attribute_name = NULL
        /\ frame[i].resp.kind = "ignored"
        /\ rTask.exists
        /\ rShot.exists

\* C10: the second handling of an event, after a first in which every
\* remote call succeeded, issues no update call and leaves every entity as
\* the first handling left it (stated for the second handlings in which
\* every remote call succeeds as well).
C10_RedeliveryIdempotent ==
    \A i \in Invocations :
        first = "clean" /\ frame[i].pc = "done" /\ AllOk(frame[i].calls) =>
            /\ NoUpdate(frame[i].calls)
            /\ Remote = frame[i].start

(********************** two concurrent invocations *************************)

\* Two invocations of the Cloud Functions running at the same time.
Concurrent == {1, 2}

\* The requests that get to a remote call: they pass the checks of
\* _dispatch and of the handler's start.  One route key per handler.
\* A status event tells of a change away from 'na'.
RaceRequests ==
    { r \in Requests :
        /\ r.sig = "valid" /\ r.body = "object" /\ r.entity_id
        /\ r.route \in {"task", "version", "version_created"}
        /\ r.route # "version_created" =>
              r.attribute_name = "sg_status_list" /\ r.new_value # "na" }

\* Two events about one Version, its Task (in some step) and the Task's
\* Shot, all of them in the remote service; the Task and the Shot have the
\* status 'na' that the service gives them at creation.
InitConcurrent ==
    /\ event \in [Concurrent -> RaceRequests]
    /\ rVersion \in {v \in Versions : v.exists /\ v.sg_task}
    /\ rTask \in {t \in Tasks : /\ t.exists /\ t.entity = "Shot"
                                /\ t.step # NULL /\ t.sg_status_list = "na"}
    /\ rShot \in {s \in Shots : s.exists /\ s.sg_status_list = "na"}
    /\ _V2T = [s \in Status |-> Unread]
    /\ _T2S = [s \in Status |-> Unread]
    /\ frame = [i \in Concurrent |-> Idle]
    /\ first = "none"

\* Both requests are received before the first remote call: _dispatch up to
\* a handler's first remote call touches nothing shared, so a later receipt
\* gives no other order of the remote calls.
ReceiveConcurrent(i) ==
    /\ \A j \in Concurrent : frame[j].calls = <<>>
    /\ Receive(i)

\* The remote call that invocation i has just made did not raise.
Succeeds(i) == AllOk(frame'[i].calls)

\* A remote call of one of the two invocations; no remote call raises.
StepConcurrent(i) ==
    \/ vs_find_version(i) /\ Succeeds(i)
    \/ vs_find_task(i) /\ Succeeds(i)
    \/ vs_set_task(i) /\ Succeeds(i)
    \/ ts_find_task(i) /\ Succeeds(i)
    \/ vc_find_version(i) /\ Succeeds(i)
    \/ vc_find_task(i) /\ Succeeds(i)
    \/ vc_set_version_cnv(i) /\ Succeeds(i)
    \/ vc_set_version_na(i) /\ Succeeds(i)
    \/ vc_set_task(i) /\ Succeeds(i)
    \/ find_shot(i) /\ Succeeds(i)
    \/ set_shot(i) /\ Succeeds(i)

NextConcurrent ==
    \/ \E i \in Concurrent : ReceiveConcurrent(i)
    \/ \E i \in Concurrent : StepConcurrent(i)

\* The platform runs the invocations in any order, each remote call taking
\* effect at once.
SpecConcurrent == InitConcurrent /\ [][NextConcurrent]_vars

(******************** one handler run from start to end ********************)

\* The remote service and the mapping file, as one value.
World(v, t, s, v2t, t2s) == [v |-> v, t |-> t, s |-> s, v2t |-> v2t, t2s |-> t2s]

\* The Shot after _update_linked_shot_if_needed(sg, task, candidate) ran
\* alone, every call succeeding.
ShotAfter(task, shot, candidate) ==
    IF /\ ShotEntry(task, candidate) = "find"
       /\ shot.exists
       /\ ~ShotIsCurrent(shot, candidate)
    THEN [shot EXCEPT !.sg_status_list = candidate[1]]
    ELSE shot

\* Lines 272-289 and 398-415 run alone from world w, the Task candidates
\* looked up under key: the worlds they can end in, one for each list the
\* mapping file can hold under the keys they read.
AfterPropagation(w, key) ==
    LET task == IF w.v.exists /\ w.v.sg_task THEN w.t ELSE NoTask IN
    UNION { LET w1 == [w EXCEPT !.v2t = Read(w.v2t, key, c)]
            IN  IF TaskNeedsUpdate(task, c)
                THEN { [w1 EXCEPT
                          !.t.sg_status_list = target_task_status(c),
                          !.t2s = Read(w1.t2s, target_task_status(c), d),
                          !.s = ShotAfter(task, w.s, d)]
                       : d \in CanHold(w1.t2s, target_task_status(c)) }
                ELSE {w1}
          : c \in CanHold(w.v2t, key) }

\* _handle_task_status run alone from world w.
AfterTaskStatus(w, r) ==
    IF ~w.t.exists \/ ~_is_composite_step(w.t) THEN {w}
    ELSE { [w EXCEPT !.t2s = Read(w.t2s, r.new_value, c),
                     !.s = ShotAfter(w.t, w.s, c)]
           : c \in CanHold(w.t2s, r.new_value) }

\* _handle_version_status run alone from world w.
AfterVersionStatus(w, r) == AfterPropagation(w, r.new_value)

\* _handle_version_created run alone from world w.
AfterVersionCreated(w, r) ==
    LET step_name == IF w.v.sg_task /\ w.t.exists THEN w.t.step ELSE NULL IN
    IF ~w.v.exists THEN {w}
    ELSE IF step_name \in eligible_steps
         THEN AfterPropagation([w EXCEPT !.v.sg_status_list = "cnv"], "cnv")
    ELSE IF w.v.sg_status_list # "na"
         THEN {[w EXCEPT !.v.sg_status_list = "na"]}
    ELSE {w}

\* The handling of request r run alone from world w.
After(w, r) ==
    IF HandlerOf(r.route) = "task" THEN AfterTaskStatus(w, r)
    ELSE IF HandlerOf(r.route) = "version" THEN AfterVersionStatus(w, r)
    ELSE AfterVersionCreated(w, r)

\* The worlds that handling a, then b, one after the other, can end in.
AfterBoth(w, a, b) == UNION { After(w1, b) : w1 \in After(w, a) }

\* The world the two invocations started from, with the mapping entries
\* that have been read since.
StartWorld ==
    World(frame[1].start[1], frame[1].start[2], frame[1].start[3], _V2T, _T2S)

\* The worlds the two sequential orders of handling the two events can end in.
Sequential ==
    AfterBoth(StartWorld, event[1], event[2])
        \cup AfterBoth(StartWorld, event[2], event[1])

BothDone == \A i \in Concurrent : frame[i].pc = "done"

\* C11: once two concurrent invocations have both answered, every remote
\* entity (the Version, the Task, the Shot) has a status that handling the
\* two events one after the other, in one of the two orders, would leave it.
C11_NoInterference ==
    BothDone =>
        /\ rVersion.sg_status_list \in {w.v.sg_status_list : w \in Sequential}
        /\ rTask.sg_status_list \in {w.t.sg_status_list : w \in Sequential}
        /\ rShot.sg_status_list \in {w.s.sg_status_list : w \in Sequential}

====
